---- MODULE Spec2Model ----
(***************************************************************************)
(* The account service of Bank-Microservices (src/account-service/main.go) *)
(* as a state machine: the accounts table of the PostgreSQL store, and a   *)
(* bounded number of concurrently running HTTP handlers, each stepping     *)
(* through the store statements of its handler.                            *)
(*                                                                         *)
(* Money is counted in thousandths of a currency unit (mills): the         *)
(* handlers take float64 amounts of any precision, while the balance       *)
(* column is DECIMAL(15,2) and keeps whole cents (multiples of 10 mills).  *)
(*                                                                         *)
(* The store is PostgreSQL at its default isolation level (READ            *)
(* COMMITTED), which is what db.Begin() asks for: a SELECT reads the       *)
(* latest committed row and takes no lock; an UPDATE locks the row until   *)
(* its transaction ends, waits for a lock held by another transaction and  *)
(* then works on the latest committed row; NOW() is the start time of the  *)
(* transaction.                                                            *)
(*                                                                         *)
(* The same file holds the authentication service: its table users and its *)
(* handlers registerUser, loginUser and updateUser are modelled after the   *)
(* account service, with the same handlers' variables.                     *)
(***************************************************************************)
EXTENDS Integers, FiniteSets, Sequences, TLC

\* Requests served in one behaviour, each by a handler of its own; any
\* number of them may run at the same time.
NReqs == 2
Procs == 1..NReqs

\* Account ids that requests address: 1 exists from the start, 2 exists
\* once a createAccount has been given it by the id sequence.
Ids == {1, 2}

\* Amounts of deposit and withdraw requests, in mills: -0.01, 0, 0.005, 0.01.
Amounts == {-10, 0, 5, 10}

\* Balance of the account present at the start, in cents.
InitCents == 1

\* The same in mills.
InitBalance == 10 * InitCents

VARIABLES
    accounts,   \* the committed rows of table accounts: id -> row
    seq,        \* last value handed out by the SERIAL sequence of accounts.id
    now,        \* the store's clock: it moves on between the arrivals of requests
    pc,         \* per handler: the statement it is at
    req,        \* per handler: the request it serves
    loc,        \* per handler: its local variables
    tx,         \* per handler: its storage transaction
    res,        \* per handler: the HTTP response it has written
    users,      \* the rows of table users of the authentication service: id -> row
    userSeq     \* last value handed out by the SERIAL sequence of users.id

vars == <<accounts, seq, now, pc, req, loc, tx, res, users, userSeq>>

----------------------------------------------------------------------------
\* Request bodies are JSON objects: functions from field names to values.
\* A body that does not parse is the object with the one field bad_json.

EmptyBody == [k \in {} |-> 0]

BadJSON == [k \in {"bad_json"} |-> 1]

\* json.NewDecoder(r.Body).Decode(&v) fails on a body that does not parse.
DecodeFails(body) == "bad_json" \in DOMAIN body

\* Decode leaves a field that the body does not give at Go's zero value.
Field(body, name, zero) == IF name \in DOMAIN body THEN body[name] ELSE zero

\* The Account that createAccount and updateAccount decode from a body.
DecodeAccount(body) ==
    [customer_id   |-> Field(body, "customer_id", 0),
     account_type  |-> Field(body, "account_type", ""),
     balance       |-> Field(body, "balance", 0),
     currency_code |-> Field(body, "currency_code", ""),
     status        |-> Field(body, "status", "")]

\* requestBody.Amount of depositFunds and withdrawFunds.
DecodeAmount(body) == Field(body, "amount", 0)

\* Bodies of deposit and withdraw requests.
AmountBodies == {[k \in {"amount"} |-> a] : a \in Amounts} \cup {BadJSON}

\* Bodies of createAccount requests.
CreateBodies ==
    { [customer_id |-> 7, account_type |-> "checking"],
      [customer_id |-> 7, account_type |-> "checking", balance |-> 10,
       currency_code |-> "EUR", status |-> "closed"],
      [customer_id |-> 7, account_type |-> "checking", balance |-> -10],
      [customer_id |-> 0, account_type |-> "checking"],
      [k \in {"account_type"} |-> "checking"],
      [k \in {"customer_id"} |-> 7],
      [customer_id |-> 7, account_type |-> ""],
      [customer_id |-> 7, account_type |-> "checking", status |-> "frozen"],
      BadJSON }

\* Bodies of updateAccount requests.
UpdateBodies ==
    { [account_type |-> "savings", status |-> "inactive"],
      [k \in {"status"} |-> "frozen"],
      EmptyBody,
      BadJSON }

----------------------------------------------------------------------------
\* The store.

\* balance DECIMAL(15,2): a value assigned to the column is rounded to whole
\* cents, halves away from zero.
Round2(m) == IF m >= 0 THEN 10 * ((m + 5) \div 10) ELSE -(10 * ((5 - m) \div 10))

\* The row that INSERT INTO accounts stores for the values of createAccount.
NewRow(a, t) ==
    [customer_id   |-> a.customer_id,
     account_type  |-> a.account_type,
     balance       |-> Round2(a.balance),
     currency_code |-> a.currency_code,
     status        |-> a.status,
     created_at    |-> t,
     updated_at    |-> t]

NoTx == [state |-> "none", start |-> 0, writes |-> EmptyBody]

\* The rows that the open transaction of handler p has written and not committed.
Writes(p) == IF tx[p].state = "open" THEN DOMAIN tx[p].writes ELSE {}

\* A lock on the whole table: any row written by another open transaction
\* blocks the statement.
LockedByOtherMutant(p, i) == \E q \in Procs \ {p} : Writes(q) # {}

\* A row lock that the commit of its transaction does not release.
LockedByOtherForever(p, i) ==
    \E q \in Procs \ {p} :
      i \in Writes(q) \/ (tx[q].state = "committed" /\ req[q].id = i)

\* Row i is locked by an open transaction of a handler other than p.
LockedByOther(p, i) == \E q \in Procs \ {p} : i \in Writes(q)

\* The row i that a statement of handler p sees: the committed row, or the
\* version its own transaction has written.
RowSeenBy(p, i) == IF i \in Writes(p) THEN tx[p].writes[i] ELSE accounts[i]

\* A commit that makes the balance of a written row durable and drops the
\* rest of the row.
CommittedMutant(p) ==
    [i \in DOMAIN accounts |->
       IF i \in Writes(p)
       THEN [accounts[i] EXCEPT !.balance = tx[p].writes[i].balance]
       ELSE accounts[i]]

\* The committed table after the transaction of handler p commits.
Committed(p) ==
    [i \in DOMAIN accounts |-> IF i \in Writes(p) THEN tx[p].writes[i] ELSE accounts[i]]

\* An INSERT that takes the id of the oldest row and replaces that row.
WithRowMutant(i, r) == [accounts EXCEPT ![1] = r]

\* The table with row r stored under id i.
WithRow(i, r) == [j \in DOMAIN accounts \cup {i} |-> IF j = i THEN r ELSE accounts[j]]

----------------------------------------------------------------------------
\* Responses.

NoLoc == [currentBalance |-> 0, newBalance |-> 0, currencyCode |-> ""]

NoReq == [op |-> "none", id |-> 0, body |-> EmptyBody]

NoRes == [code |-> 0, msg |-> "", body |-> EmptyBody]

\* http.Error(w, msg, code)
HttpError(code, msg) == [code |-> code, msg |-> msg, body |-> EmptyBody]

\* json.NewEncoder(w).Encode(body), with the status code written before it.
Json(code, body) == [code |-> code, msg |-> "", body |-> body]

\* err.Error() of an error of the store or its driver.
StoreErr == "store error"

\* A handler that takes a missing row for a row of zero values.
NotFoundMutant == [code |-> 200, msg |-> "",
                   body |-> [account_id |-> 0, balance |-> 0, currency_code |-> ""]]

\* The response to sql.ErrNoRows.
NotFound == HttpError(404, "Account not found")

\* bcrypt.GenerateFromPassword: the stored form of a password.
Hash(password) == <<"bcrypt", password>>

\* The row that INSERT INTO users stores for a registration.
NewUser(username, email, password, role, t) ==
    [username |-> username, email |-> email, password |-> Hash(password),
     role |-> role, status |-> "active", created_at |-> t, updated_at |-> t]

\* Table users at the start: one registered user.
InitUsers ==
    /\ users = [i \in {1} |-> NewUser("alice", "alice@x", "pw1", "customer", 0)]
    /\ userSeq = 1

TypeOK ==
    /\ seq \in Nat
    /\ now \in 0..NReqs
    /\ DOMAIN accounts \subseteq 1..seq
    /\ pc \in [Procs -> {"idle", "select", "update", "commit", "insert", "verify", "done"}]
    /\ DOMAIN users \subseteq 1..userSeq
    /\ \A p \in Procs : tx[p].state \in {"none", "open", "committed", "rolledback"}
    /\ \A p \in Procs : res[p].code \in {0, 200, 201, 400, 401, 403, 404, 409, 500}

Init ==
    /\ accounts = [i \in {1} |->
                      NewRow([customer_id |-> 7, account_type |-> "checking",
                              balance |-> InitBalance, currency_code |-> "USD",
                              status |-> "active"], 0)]
    /\ seq = 1
    /\ now = 0
    /\ pc = [p \in Procs |-> "idle"]
    /\ req = [p \in Procs |-> NoReq]
    /\ loc = [p \in Procs |-> NoLoc]
    /\ tx = [p \in Procs |-> NoTx]
    /\ res = [p \in Procs |-> NoRes]
    /\ InitUsers

----------------------------------------------------------------------------
\* The handlers: one goroutine per request, numbered in the order in which
\* the requests arrive.

Idle(p) ==
    /\ pc[p] = "idle"
    /\ \A q \in Procs : q < p => pc[q] # "idle"

Receive(p, op, i, body) ==
    /\ Idle(p)
    /\ now' = now + 1
    /\ req' = [req EXCEPT ![p] = [op |-> op, id |-> i, body |-> body]]

\* The handler writes its response and returns.
Respond(p, r) ==
    /\ pc' = [pc EXCEPT ![p] = "done"]
    /\ res' = [res EXCEPT ![p] = r]

\* A handler without the deferred rollback: it returns and leaves its
\* transaction as it is.
RollbackMutant(p) == UNCHANGED tx

\* defer tx.Rollback() of a handler that returns with its transaction open:
\* the uncommitted writes are dropped and the row locks released.
Rollback(p) == tx' = [tx EXCEPT ![p] = [NoTx EXCEPT !.state = "rolledback"]]

\* The JSON encoding of an Account row.
AccountJson(i, row) ==
    [id |-> i, customer_id |-> row.customer_id, account_type |-> row.account_type,
     balance |-> row.balance, currency_code |-> row.currency_code,
     status |-> row.status, created_at |-> row.created_at,
     updated_at |-> row.updated_at]

\* A response whose balance depends on the time of the call as well.
BalanceJsonMutant(i, balance, currencyCode) ==
    [account_id |-> i, balance |-> balance + 10 * now, currency_code |-> currencyCode]

\* The response of getBalance.
BalanceJson(i, balance, currencyCode) ==
    [account_id |-> i, balance |-> balance, currency_code |-> currencyCode]

\* The response of depositFunds and withdrawFunds.
FundsJson(i, balance, currencyCode, message) ==
    [account_id |-> i, balance |-> balance, currency_code |-> currencyCode,
     message |-> message]

getAccount(p) ==
    \E i \in Ids :
      /\ Receive(p, "getAccount", i, EmptyBody)
      /\ \/ Respond(p, HttpError(500, StoreErr))
         \/ /\ i \notin DOMAIN accounts
            /\ Respond(p, NotFound)
         \/ /\ i \in DOMAIN accounts
            /\ Respond(p, Json(200, AccountJson(i, accounts[i])))
      /\ UNCHANGED <<accounts, seq, loc, tx, users, userSeq>>

\* Row i as a read that does not wait for commits would see it: the version
\* written by an open transaction, if there is one.
DirtyRow(i) ==
    IF \E q \in Procs : i \in Writes(q)
    THEN tx[CHOOSE q \in Procs : i \in Writes(q)].writes[i]
    ELSE accounts[i]

\* A getBalance that reads uncommitted rows.
getBalanceMutant(p) ==
    \E i \in Ids :
      /\ Receive(p, "getBalance", i, EmptyBody)
      /\ \/ Respond(p, HttpError(500, StoreErr))
         \/ /\ i \notin DOMAIN accounts
            /\ Respond(p, NotFound)
         \/ /\ i \in DOMAIN accounts
            /\ Respond(p, Json(200, BalanceJson(i, DirtyRow(i).balance,
                                                DirtyRow(i).currency_code)))
      /\ UNCHANGED <<accounts, seq, loc, tx, users, userSeq>>

getBalance(p) ==
    \E i \in Ids :
      /\ Receive(p, "getBalance", i, EmptyBody)
      /\ \/ Respond(p, HttpError(500, StoreErr))
         \/ /\ i \notin DOMAIN accounts
            /\ Respond(p, NotFound)
         \/ /\ i \in DOMAIN accounts
            /\ Respond(p, Json(200, BalanceJson(i, accounts[i].balance,
                                                accounts[i].currency_code)))
      /\ UNCHANGED <<accounts, seq, loc, tx, users, userSeq>>

\* A validation that rejects only a body that lacks both required fields.
MissingRequiredMutant(a) == a.customer_id = 0 /\ a.account_type = ""

\* The validation of createAccount.
MissingRequired(a) == a.customer_id = 0 \/ a.account_type = ""

createAccount(p) ==
    \E body \in CreateBodies :
      LET a == DecodeAccount(body) IN
      /\ Receive(p, "createAccount", 0, body)
      /\ \/ /\ DecodeFails(body)
            /\ Respond(p, HttpError(400, "invalid JSON"))
            /\ UNCHANGED <<accounts, seq>>
         \/ /\ ~DecodeFails(body)
            /\ MissingRequired(a)
            /\ Respond(p, HttpError(400, "Customer ID and account type are required"))
            /\ UNCHANGED <<accounts, seq>>
         \/ /\ ~DecodeFails(body)
            /\ ~MissingRequired(a)
            /\ seq' \in {seq, seq + 1}
            /\ Respond(p, HttpError(500, StoreErr))
            /\ UNCHANGED accounts
         \/ /\ ~DecodeFails(body)
            /\ ~MissingRequired(a)
            /\ seq' = seq + 1
            /\ accounts' = WithRow(seq + 1, NewRow(a, now'))
            /\ Respond(p, Json(201, [AccountJson(seq + 1, NewRow(a, now'))
                                       EXCEPT !.balance = a.balance]))
      /\ UNCHANGED <<loc, tx, users, userSeq>>

\* An UPDATE that also assigns the balance decoded from the body.
UpdatedRowMutant(row, a, t) ==
    [row EXCEPT !.account_type = a.account_type, !.status = a.status,
                !.balance = Round2(a.balance), !.updated_at = t]

\* UPDATE accounts SET account_type = $1, status = $2, updated_at = NOW()
UpdatedRow(row, a, t) ==
    [row EXCEPT !.account_type = a.account_type, !.status = a.status, !.updated_at = t]

updateAccount(p) ==
    \E i \in Ids, body \in UpdateBodies :
      LET a == DecodeAccount(body) IN
      /\ Receive(p, "updateAccount", i, body)
      /\ \/ /\ DecodeFails(body)
            /\ Respond(p, HttpError(400, "invalid JSON"))
            /\ UNCHANGED accounts
         \/ /\ ~DecodeFails(body)
            /\ Respond(p, HttpError(500, StoreErr))
            /\ UNCHANGED accounts
         \/ /\ ~DecodeFails(body)
            /\ i \notin DOMAIN accounts
            /\ Respond(p, NotFound)
            /\ UNCHANGED accounts
         \/ /\ ~DecodeFails(body)
            /\ i \in DOMAIN accounts
            /\ ~LockedByOther(p, i)
            /\ accounts' = [accounts EXCEPT ![i] = UpdatedRow(accounts[i], a, now')]
            /\ Respond(p, Json(200, AccountJson(i, UpdatedRow(accounts[i], a, now'))))
      /\ UNCHANGED <<seq, loc, tx, users, userSeq>>

\* A validation that lets the amount 0 pass.
InvalidAmountMutant(amount) == amount < 0

\* The validation of depositFunds and withdrawFunds.
InvalidAmount(amount) == amount <= 0

\* tx, err := db.Begin(): NOW() of the transaction is the time it begins at.
Begin(p, t) == tx' = [tx EXCEPT ![p] = [state |-> "open", start |-> t, writes |-> EmptyBody]]

\* Decode and validate the body of a deposit or withdraw request, and begin
\* the transaction.
ReceiveFunds(p, op) ==
    \E i \in Ids, body \in AmountBodies :
      /\ Receive(p, op, i, body)
      /\ \/ /\ DecodeFails(body)
            /\ Respond(p, HttpError(400, "invalid JSON"))
            /\ UNCHANGED tx
         \/ /\ ~DecodeFails(body)
            /\ InvalidAmount(DecodeAmount(body))
            /\ Respond(p, HttpError(400, "Amount must be positive"))
            /\ UNCHANGED tx
         \/ /\ ~DecodeFails(body)
            /\ ~InvalidAmount(DecodeAmount(body))
            /\ Respond(p, HttpError(500, StoreErr))
            /\ UNCHANGED tx
         \/ /\ ~DecodeFails(body)
            /\ ~InvalidAmount(DecodeAmount(body))
            /\ Begin(p, now')
            /\ pc' = [pc EXCEPT ![p] = IF op = "withdraw" THEN "select" ELSE "update"]
            /\ UNCHANGED res
      /\ UNCHANGED <<accounts, seq, loc, users, userSeq>>

depositFunds(p) == ReceiveFunds(p, "deposit")

withdrawFunds(p) == ReceiveFunds(p, "withdraw")

\* The row version that the UPDATE of handler p writes into its transaction.
Write(p, i, row) ==
    tx' = [tx EXCEPT ![p].writes =
             [j \in DOMAIN tx[p].writes \cup {i} |-> IF j = i THEN row ELSE tx[p].writes[j]]]

\* UPDATE accounts SET balance = balance + $1, updated_at = NOW() WHERE id = $2
Credited(row, amount, t) ==
    [row EXCEPT !.balance = Round2(row.balance + amount), !.updated_at = t]

\* UPDATE accounts SET balance = balance - $1, updated_at = NOW() WHERE id = $2
Debited(row, amount, t) ==
    [row EXCEPT !.balance = Round2(row.balance - amount), !.updated_at = t]

DepositUpdate(p) ==
    LET i == req[p].id
        amount == DecodeAmount(req[p].body) IN
    /\ pc[p] = "update"
    /\ req[p].op = "deposit"
    /\ \/ /\ Respond(p, HttpError(500, StoreErr))
          /\ Rollback(p)
          /\ UNCHANGED loc
       \/ /\ i \notin DOMAIN accounts
          /\ Respond(p, NotFound)
          /\ Rollback(p)
          /\ UNCHANGED loc
       \/ /\ i \in DOMAIN accounts
          /\ ~LockedByOther(p, i)
          /\ Write(p, i, Credited(RowSeenBy(p, i), amount, tx[p].start))
          /\ loc' = [loc EXCEPT ![p].newBalance =
                                  Credited(RowSeenBy(p, i), amount, tx[p].start).balance,
                                ![p].currencyCode = RowSeenBy(p, i).currency_code]
          /\ pc' = [pc EXCEPT ![p] = "commit"]
          /\ UNCHANGED res
    /\ UNCHANGED <<accounts, seq, now, req, users, userSeq>>

\* if currentBalance < requestBody.Amount
InsufficientFunds(currentBalance, amount) == currentBalance < amount

\* SELECT balance FROM accounts WHERE id = $1, and the check of the balance read.
WithdrawSelect(p) ==
    LET i == req[p].id
        amount == DecodeAmount(req[p].body) IN
    /\ pc[p] = "select"
    /\ \/ /\ Respond(p, HttpError(500, StoreErr))
          /\ Rollback(p)
          /\ UNCHANGED loc
       \/ /\ i \notin DOMAIN accounts
          /\ Respond(p, NotFound)
          /\ Rollback(p)
          /\ UNCHANGED loc
       \/ /\ i \in DOMAIN accounts
          /\ InsufficientFunds(RowSeenBy(p, i).balance, amount)
          /\ Respond(p, HttpError(400, "Insufficient funds"))
          /\ Rollback(p)
          /\ loc' = [loc EXCEPT ![p].currentBalance = RowSeenBy(p, i).balance]
       \/ /\ i \in DOMAIN accounts
          /\ ~InsufficientFunds(RowSeenBy(p, i).balance, amount)
          /\ loc' = [loc EXCEPT ![p].currentBalance = RowSeenBy(p, i).balance]
          /\ pc' = [pc EXCEPT ![p] = "update"]
          /\ UNCHANGED <<res, tx>>
    /\ UNCHANGED <<accounts, seq, now, req, users, userSeq>>

WithdrawUpdate(p) ==
    LET i == req[p].id
        amount == DecodeAmount(req[p].body) IN
    /\ pc[p] = "update"
    /\ req[p].op = "withdraw"
    /\ \/ /\ Respond(p, HttpError(500, StoreErr))
          /\ Rollback(p)
          /\ UNCHANGED loc
       \/ /\ i \in DOMAIN accounts
          /\ ~LockedByOther(p, i)
          /\ Write(p, i, Debited(RowSeenBy(p, i), amount, tx[p].start))
          /\ loc' = [loc EXCEPT ![p].newBalance =
                                  Debited(RowSeenBy(p, i), amount, tx[p].start).balance,
                                ![p].currencyCode = RowSeenBy(p, i).currency_code]
          /\ pc' = [pc EXCEPT ![p] = "commit"]
          /\ UNCHANGED res
    /\ UNCHANGED <<accounts, seq, now, req, users, userSeq>>

\* err = tx.Commit(), and the response with the balance the UPDATE returned.
Commit(p) ==
    /\ pc[p] = "commit"
    /\ \/ /\ Respond(p, HttpError(500, StoreErr))
          /\ Rollback(p)
          /\ UNCHANGED accounts
       \/ /\ accounts' = Committed(p)
          /\ tx' = [tx EXCEPT ![p] = [NoTx EXCEPT !.state = "committed"]]
          /\ Respond(p, Json(200, FundsJson(req[p].id, loc[p].newBalance,
                                            loc[p].currencyCode,
                                            IF req[p].op = "deposit"
                                            THEN "Successfully deposited"
                                            ELSE "Successfully withdrew")))
    /\ UNCHANGED <<seq, now, req, loc, users, userSeq>>

\* A request arrives and its handler runs up to its first store statement.
Arrive(p) ==
    \/ getAccount(p)
    \/ getBalance(p)
    \/ createAccount(p)
    \/ updateAccount(p)
    \/ depositFunds(p)
    \/ withdrawFunds(p)

\* A handler takes its next store statement.
Step(p) ==
    \/ DepositUpdate(p)
    \/ WithdrawSelect(p)
    \/ WithdrawUpdate(p)
    \/ Commit(p)

Next == \E p \in Procs : Arrive(p) \/ Step(p)

Spec == Init /\ [][Next]_vars

\* No handler is between its first store statement and its return.
Quiet == \A p \in Procs : pc[p] \in {"idle", "done"}

\* One operation at a time: a request arrives only when no handler is running.
NextSeq == \E p \in Procs : (Quiet /\ Arrive(p)) \/ Step(p)

SpecSeq == Init /\ [][NextSeq]_vars

\* Two accounts from the start, in different states: the account of Init and
\* a second one with balance 0.
InitTwo ==
    /\ accounts = [i \in {1, 2} |->
                      IF i = 1
                      THEN NewRow([customer_id |-> 7, account_type |-> "checking",
                                   balance |-> InitBalance, currency_code |-> "USD",
                                   status |-> "active"], 0)
                      ELSE NewRow([customer_id |-> 8, account_type |-> "savings",
                                   balance |-> 0, currency_code |-> "EUR",
                                   status |-> "inactive"], 0)]
    /\ seq = 2
    /\ now = 0
    /\ pc = [p \in Procs |-> "idle"]
    /\ req = [p \in Procs |-> NoReq]
    /\ loc = [p \in Procs |-> NoLoc]
    /\ tx = [p \in Procs |-> NoTx]
    /\ res = [p \in Procs |-> NoRes]
    /\ InitUsers

SpecTwo == InitTwo /\ [][Next]_vars

\* Values of the query parameters limit and offset of getAccounts; "" is a
\* parameter that the URL does not give.
Params == {"", "0", "1", "-1", "abc"}

\* The texts that the store reads as a bigint: the decimal forms of integers.
IsBigint(s) == s \in {"0", "1", "-1", "100"}

\* The store's reading of a LIMIT or OFFSET parameter sent as text.
ParseBigint(s) ==
    CASE s = "0" -> 0
      [] s = "1" -> 1
      [] s = "-1" -> -1
      [] s = "100" -> 100

\* limit == "" and offset == "" are replaced by the defaults.
WithDefault(s, default) == IF s = "" THEN default ELSE s

\* The results that SELECT ... FROM accounts LIMIT l OFFSET o may give: the
\* query has no ORDER BY, so any rows of the table, as many as remain after
\* skipping o and at most l.
Min(a, b) == IF a < b THEN a ELSE b

Pages(l, o) ==
    LET n == Cardinality(DOMAIN accounts)
        k == Min(l, IF n > o THEN n - o ELSE 0) IN
    { {AccountJson(i, accounts[i]) : i \in S} :
        S \in {T \in SUBSET DOMAIN accounts : Cardinality(T) = k} }

getAccounts(p) ==
    \E limit \in Params, offset \in Params :
      LET l == WithDefault(limit, "100")
          o == WithDefault(offset, "0") IN
      /\ Receive(p, "getAccounts", 0, [limit |-> limit, offset |-> offset])
      /\ \/ Respond(p, HttpError(500, StoreErr))
         \/ /\ ~IsBigint(l) \/ ~IsBigint(o)
            /\ Respond(p, HttpError(500, "pq: invalid input syntax for type bigint"))
         \/ /\ IsBigint(l) /\ IsBigint(o)
            /\ ParseBigint(l) < 0
            /\ Respond(p, HttpError(500, "pq: LIMIT must not be negative"))
         \/ /\ IsBigint(l) /\ IsBigint(o)
            /\ ParseBigint(l) >= 0 /\ ParseBigint(o) < 0
            /\ Respond(p, HttpError(500, "pq: OFFSET must not be negative"))
         \/ /\ IsBigint(l) /\ IsBigint(o)
            /\ ParseBigint(l) >= 0 /\ ParseBigint(o) >= 0
            /\ \E page \in Pages(ParseBigint(l), ParseBigint(o)) :
                 Respond(p, Json(200, page))
      /\ UNCHANGED <<accounts, seq, loc, tx, users, userSeq>>

\* The requests that list and create accounts.
NextList == \E p \in Procs : getAccounts(p) \/ createAccount(p)

SpecList == Init /\ [][NextList]_vars

----------------------------------------------------------------------------
\* The authentication service (the second program of main.go): table users
\* and the handlers registerUser, loginUser and updateUser. Its handlers run
\* no transaction: each store statement commits on its own.

\* User ids that updateUser requests address.
UserIds == {1, 2}

\* Bodies of registerUser requests: bob twice with different emails, carol
\* with the email of the first bob, a username that is taken from the start,
\* a body without password.
RegisterBodies ==
    { [username |-> "bob", email |-> "bob@x", password |-> "pw2"],
      [username |-> "bob", email |-> "bob2@x", password |-> "pw1", role |-> "admin"],
      [username |-> "carol", email |-> "bob@x", password |-> "pw1"],
      [username |-> "alice", email |-> "alice2@x", password |-> "pw1"],
      [username |-> "dave", email |-> "dave@x"],
      BadJSON }

\* Bodies of loginUser requests.
LoginBodies ==
    { [username |-> "alice", password |-> "pw1"],
      [username |-> "alice", password |-> "pw2"],
      [username |-> "bob", password |-> "pw2"],
      [username |-> "zed", password |-> "pw1"],
      [k \in {"username"} |-> "alice"],
      BadJSON }

\* Bodies of updateUser requests.
UserBodies ==
    { [email |-> "alice@x", role |-> "customer", status |-> "inactive"],
      [email |-> "alice@x", role |-> "customer", status |-> "active"],
      EmptyBody,
      BadJSON }

\* The User that registerUser and updateUser decode from a body, and the
\* LoginRequest of loginUser.
DecodeUser(body) ==
    [username |-> Field(body, "username", ""),
     email    |-> Field(body, "email", ""),
     password |-> Field(body, "password", ""),
     role     |-> Field(body, "role", ""),
     status   |-> Field(body, "status", "")]

\* bcrypt.CompareHashAndPassword returns nil.
PasswordMatches(hashed, password) == hashed = Hash(password)

\* The JSON encoding of a User row; the password is never part of it.
UserJson(i, row) ==
    [id |-> i, username |-> row.username, email |-> row.email, role |-> row.role,
     status |-> row.status, created_at |-> row.created_at,
     updated_at |-> row.updated_at]

\* generateJWT and the TokenResponse: the signed claims of the user.
TokenJson(user) ==
    [token |-> <<"jwt", user.id, user.username, user.role>>,
     user_id |-> user.id, username |-> user.username, role |-> user.role]

\* SELECT EXISTS(SELECT 1 FROM users WHERE username = $1 OR email = $2)
Exists(username, email) ==
    \E i \in DOMAIN users : users[i].username = username \/ users[i].email = email

\* The error of a statement that would break a UNIQUE constraint of users.
DuplicateKey == "pq: duplicate key value violates unique constraint"

\* The validation of registerUser.
MissingCredentials(u) == u.username = "" \/ u.email = "" \/ u.password = ""

\* registerUser up to its SELECT EXISTS.
registerUser(p) ==
    \E body \in RegisterBodies :
      LET u == DecodeUser(body) IN
      /\ Receive(p, "registerUser", 0, body)
      /\ \/ /\ DecodeFails(body)
            /\ Respond(p, HttpError(400, "invalid JSON"))
         \/ /\ ~DecodeFails(body)
            /\ MissingCredentials(u)
            /\ Respond(p, HttpError(400, "Username, email, and password are required"))
         \/ /\ ~DecodeFails(body)
            /\ ~MissingCredentials(u)
            /\ Respond(p, HttpError(500, StoreErr))
         \/ /\ ~DecodeFails(body)
            /\ ~MissingCredentials(u)
            /\ Exists(u.username, u.email)
            /\ Respond(p, HttpError(409, "Username or email already exists"))
         \/ /\ ~DecodeFails(body)
            /\ ~MissingCredentials(u)
            /\ ~Exists(u.username, u.email)
            /\ pc' = [pc EXCEPT ![p] = "insert"]
            /\ UNCHANGED res
      /\ UNCHANGED <<accounts, seq, loc, tx, users, userSeq>>

\* The default role, the INSERT INTO users and the response of registerUser.
RegisterInsert(p) ==
    LET u == DecodeUser(req[p].body)
        role == IF u.role = "" THEN "customer" ELSE u.role
        row == NewUser(u.username, u.email, u.password, role, now) IN
    /\ pc[p] = "insert"
    /\ \/ /\ userSeq' \in {userSeq, userSeq + 1}
          /\ Respond(p, HttpError(500, StoreErr))
          /\ UNCHANGED users
       \/ /\ Exists(u.username, u.email)
          /\ userSeq' = userSeq + 1
          /\ Respond(p, HttpError(500, DuplicateKey))
          /\ UNCHANGED users
       \/ /\ ~Exists(u.username, u.email)
          /\ userSeq' = userSeq + 1
          /\ users' = [j \in DOMAIN users \cup {userSeq + 1} |->
                         IF j = userSeq + 1 THEN row ELSE users[j]]
          /\ Respond(p, Json(201, UserJson(userSeq + 1, row)))
    /\ UNCHANGED <<accounts, seq, now, req, loc, tx>>

\* The validation of loginUser.
MissingLogin(u) == u.username = "" \/ u.password = ""

\* loginUser up to its SELECT ... FROM users WHERE username = $1.
loginUser(p) ==
    \E body \in LoginBodies :
      LET u == DecodeUser(body) IN
      /\ Receive(p, "loginUser", 0, body)
      /\ \/ /\ DecodeFails(body)
            /\ Respond(p, HttpError(400, "invalid JSON"))
            /\ UNCHANGED loc
         \/ /\ ~DecodeFails(body)
            /\ MissingLogin(u)
            /\ Respond(p, HttpError(400, "Username and password are required"))
            /\ UNCHANGED loc
         \/ /\ ~DecodeFails(body)
            /\ ~MissingLogin(u)
            /\ Respond(p, HttpError(500, StoreErr))
            /\ UNCHANGED loc
         \/ /\ ~DecodeFails(body)
            /\ ~MissingLogin(u)
            /\ ~ \E i \in DOMAIN users : users[i].username = u.username
            /\ Respond(p, HttpError(401, "Invalid credentials"))
            /\ UNCHANGED loc
         \/ /\ ~DecodeFails(body)
            /\ ~MissingLogin(u)
            /\ \E i \in DOMAIN users :
                 /\ users[i].username = u.username
                 /\ loc' = [loc EXCEPT ![p] =
                              [id |-> i, username |-> users[i].username,
                               password |-> users[i].password, email |-> users[i].email,
                               role |-> users[i].role, status |-> users[i].status]]
            /\ pc' = [pc EXCEPT ![p] = "verify"]
            /\ UNCHANGED res
      /\ UNCHANGED <<accounts, seq, tx, users, userSeq>>

\* A login that does not look at the status of the user.
NotActiveMutant(user) == FALSE

\* if user.Status != "active"
NotActive(user) == user.status # "active"

\* The checks of loginUser on the user it has read, and its response.
LoginVerify(p) ==
    LET user == loc[p]
        password == DecodeUser(req[p].body).password IN
    /\ pc[p] = "verify"
    /\ \/ /\ NotActive(user)
          /\ Respond(p, HttpError(403, "Account is not active"))
       \/ /\ ~NotActive(user)
          /\ ~PasswordMatches(user.password, password)
          /\ Respond(p, HttpError(401, "Invalid credentials"))
       \/ /\ ~NotActive(user)
          /\ PasswordMatches(user.password, password)
          /\ Respond(p, Json(200, TokenJson(user)))
    /\ UNCHANGED <<accounts, seq, now, req, loc, tx, users, userSeq>>

\* UPDATE users SET email = $1, role = $2, status = $3, updated_at = NOW()
UpdatedUser(row, u, t) ==
    [row EXCEPT !.email = u.email, !.role = u.role, !.status = u.status,
                !.updated_at = t]

updateUser(p) ==
    \E i \in UserIds, body \in UserBodies :
      LET u == DecodeUser(body) IN
      /\ Receive(p, "updateUser", i, body)
      /\ \/ /\ DecodeFails(body)
            /\ Respond(p, HttpError(400, "invalid JSON"))
            /\ UNCHANGED users
         \/ /\ ~DecodeFails(body)
            /\ Respond(p, HttpError(500, StoreErr))
            /\ UNCHANGED users
         \/ /\ ~DecodeFails(body)
            /\ i \notin DOMAIN users
            /\ Respond(p, HttpError(404, "User not found"))
            /\ UNCHANGED users
         \/ /\ ~DecodeFails(body)
            /\ i \in DOMAIN users
            /\ \E j \in DOMAIN users \ {i} : users[j].email = u.email
            /\ Respond(p, HttpError(500, DuplicateKey))
            /\ UNCHANGED users
         \/ /\ ~DecodeFails(body)
            /\ i \in DOMAIN users
            /\ ~ \E j \in DOMAIN users \ {i} : users[j].email = u.email
            /\ users' = [users EXCEPT ![i] = UpdatedUser(users[i], u, now')]
            /\ Respond(p, Json(200, UserJson(i, UpdatedUser(users[i], u, now'))))
      /\ UNCHANGED <<accounts, seq, loc, tx, userSeq>>

NextAuth ==
    \E p \in Procs :
      \/ registerUser(p)
      \/ RegisterInsert(p)
      \/ loginUser(p)
      \/ LoginVerify(p)
      \/ updateUser(p)

SpecAuth == Init /\ [][NextAuth]_vars

\* Fair scheduling: a handler whose next store statement can complete without
\* a store error, and stays so, does take a step. No fairness is asked of the
\* steps that end in a store error: no handler is rescued by a failure.
Completes(p) == Step(p) /\ res'[p].code # 500

\* The requests that open transactions: deposits and withdrawals only, the
\* other handlers hold no lock from one step to the next.
NextFunds == \E p \in Procs : depositFunds(p) \/ withdrawFunds(p) \/ Step(p)

SpecLive == Init /\ [][NextFunds]_vars /\ \A p \in Procs : WF_vars(Completes(p))

----------------------------------------------------------------------------
\* Properties.

\* The amount that the deposit or withdraw request of handler p asks for.
Amount(p) == DecodeAmount(req[p].body)

\* Handler p serves a deposit or withdraw request whose body decodes.
Funds(p) == req[p].op \in {"deposit", "withdraw"} /\ ~DecodeFails(req[p].body)

\* Handler p is the one that takes this step.
Moves(p) == pc'[p] # pc[p]

\* Handler p serves the request that arrived last.
Latest(p) == \A q \in Procs : q > p => pc[q] = "idle"

Insufficient == HttpError(400, "Insufficient funds")

\* C1: an account whose balance is >= 0 keeps a balance >= 0 in every step,
\* under every interleaving of the statements of concurrent deposits and
\* withdrawals (stated for requests whose amounts are whole cents, so that
\* no rounding takes part).
C1_NonNegative ==
    [][(\A p \in Procs : Funds(p) => Amount(p) % 10 = 0)
       => \A i \in DOMAIN accounts :
            accounts[i].balance >= 0 => accounts'[i].balance >= 0]_vars

\* C2: of two Withdraw(1, a) with a <= b < 2a, b the balance of account 1
\* when they arrive, and no other request, exactly one succeeds, the other
\* is answered insufficient funds, and the balance ends at b - a (store
\* errors apart).
C2_OneWinner ==
    \A p, q \in Procs :
      ( /\ p < q
        /\ \A r \in Procs \ {p, q} : pc[r] = "idle"
        /\ pc[p] = "done" /\ pc[q] = "done"
        /\ req[p].op = "withdraw" /\ req[q].op = "withdraw"
        /\ req[p].id = 1 /\ req[q].id = 1
        /\ Funds(p) /\ Funds(q)
        /\ Amount(p) = Amount(q)
        /\ Amount(p) <= InitBalance /\ InitBalance < 2 * Amount(p)
        /\ res[p].code # 500 /\ res[q].code # 500 )
      => /\ \/ res[p].code = 200 /\ res[q] = Insufficient
            \/ res[q].code = 200 /\ res[p] = Insufficient
         /\ accounts[1].balance = InitBalance - Amount(p)

\* C3: no balance write of another operation commits on an account between
\* the balance read of a withdrawal on that account and its balance update.
C3_CheckAndWriteAtomic ==
    [][~ \E p, q \in Procs :
           /\ p # q
           /\ req[p].op = "withdraw" /\ pc[p] = "update"
           /\ req[q].id = req[p].id
           /\ pc[q] = "commit" /\ pc'[q] = "done" /\ res'[q].code = 200]_vars

\* C4: run alone on an existing account with balance b, Withdraw(id, a) with
\* a > 0 succeeds exactly when a <= b and then leaves the balance b - a;
\* otherwise it is answered insufficient funds and the balance stays b
\* (store errors apart).
C4_SequentialWithdraw ==
    \A p \in Procs :
      ( /\ req[p].op = "withdraw" /\ Funds(p) /\ Amount(p) > 0
        /\ pc[p] = "done" /\ Latest(p)
        /\ req[p].id \in DOMAIN accounts
        /\ res[p].code # 500 )
      => LET a == Amount(p)
             b == loc[p].currentBalance
             balance == accounts[req[p].id].balance IN
         /\ res[p].code = 200 <=> a <= b
         /\ res[p].code = 200 => balance = b - a
         /\ res[p].code # 200 => res[p] = Insufficient /\ balance = b

\* C5: the balance a successful deposit or withdrawal returns is the balance
\* stored right after its commit, and that is the balance stored right before
\* it plus (deposit) or minus (withdrawal) the amount asked for.
C5_ReturnsPostBalance ==
    [][\A p \in Procs :
         (pc[p] = "commit" /\ pc'[p] = "done" /\ res'[p].code = 200)
         => LET i == req[p].id
                delta == IF req[p].op = "deposit" THEN Amount(p) ELSE -Amount(p) IN
            /\ res'[p].body.balance = accounts'[i].balance
            /\ accounts'[i].balance = accounts[i].balance + delta]_vars

\* C6: a successful Deposit(1, a) followed by a successful Withdraw(1, a),
\* with no other request, leaves the balance of account 1 as it was before.
C6_Conservation ==
    ( /\ req[1].op = "deposit" /\ req[2].op = "withdraw"
      /\ req[1].id = 1 /\ req[2].id = 1
      /\ Funds(1) /\ Funds(2) /\ Amount(1) = Amount(2)
      /\ pc[1] = "done" /\ pc[2] = "done" /\ Latest(2)
      /\ res[1].code = 200 /\ res[2].code = 200 )
    => accounts[1].balance = InitBalance

\* C7: a deposit or withdrawal of an amount <= 0 is answered "Amount must be
\* positive" in the step in which it arrives, with no transaction begun and
\* the table unchanged; a deposit of a positive amount, the smallest
\* included, on the account present from the start is never rejected: it
\* succeeds unless the store reports an error.
C7_InvalidAmount ==
    /\ [][\A p \in Procs :
            (pc[p] = "idle" /\ Moves(p) /\ req'[p].op \in {"deposit", "withdraw"}
             /\ ~DecodeFails(req'[p].body) /\ DecodeAmount(req'[p].body) <= 0)
            => /\ pc'[p] = "done"
               /\ res'[p] = HttpError(400, "Amount must be positive")
               /\ tx'[p].state = "none"
               /\ accounts' = accounts]_vars
    /\ [](\A p \in Procs :
            (req[p].op = "deposit" /\ Funds(p) /\ Amount(p) > 0
             /\ req[p].id = 1 /\ pc[p] = "done")
            => res[p].code \in {200, 500})

\* C7 witness: a withdrawal of a negative amount and a deposit of zero have
\* been rejected.
C7_Witness ==
    /\ req[1].op = "withdraw" /\ Funds(1) /\ Amount(1) < 0 /\ res[1].code = 400
    /\ req[2].op = "deposit" /\ Funds(2) /\ Amount(2) = 0 /\ res[2].code = 400

\* The operations that address an account by its id.
Addressed == {"getAccount", "getBalance", "updateAccount", "deposit", "withdraw"}

\* C8 as stated: every operation addressed to an id that does not exist is
\* answered not found (bodies that do not decode and store errors apart).
C8_AlwaysNotFound ==
    \A p \in Procs :
      ( /\ req[p].op \in Addressed /\ pc[p] = "done"
        /\ req[p].id \notin DOMAIN accounts
        /\ ~DecodeFails(req[p].body)
        /\ res[p].code # 500 )
      => res[p] = HttpError(404, "Account not found")

\* C8 amended: an operation addressed to an id that does not exist never
\* succeeds and returns no record, no step of it changes the table, and it
\* is answered not found unless its body does not decode, its amount is
\* <= 0 (deposit, withdraw) or the store reports an error.
C8_NotFound ==
    /\ [](\A p \in Procs :
            ( /\ req[p].op \in Addressed /\ pc[p] = "done"
              /\ req[p].id \notin DOMAIN accounts )
            => /\ res[p].code \in {400, 404, 500}
               /\ DOMAIN res[p].body = {}
               /\ ( /\ ~DecodeFails(req[p].body)
                    /\ req[p].op \in {"deposit", "withdraw"} => Amount(p) > 0
                    /\ res[p].code # 500 )
                  => res[p] = HttpError(404, "Account not found"))
    /\ [][\A p \in Procs :
            (Moves(p) /\ req'[p].op \in Addressed /\ req'[p].id \notin DOMAIN accounts)
            => accounts' = accounts /\ seq' = seq]_vars

\* C8 witness: a withdrawal and a getBalance addressed to an id that does not
\* exist have been answered not found.
C8_Witness ==
    /\ req[1].op = "withdraw" /\ req[1].id \notin DOMAIN accounts
    /\ pc[1] = "done" /\ res[1].code = 404
    /\ req[2].op = "getBalance" /\ req[2].id \notin DOMAIN accounts
    /\ pc[2] = "done" /\ res[2].code = 404

\* C9: a createAccount with a negative balance is rejected (store errors
\* apart) and no step adds an account with a balance < 0.
C9_NegativeRejected ==
    /\ [](\A p \in Procs :
            ( /\ req[p].op = "createAccount" /\ pc[p] = "done"
              /\ ~DecodeFails(req[p].body)
              /\ DecodeAccount(req[p].body).balance < 0
              /\ res[p].code # 500 )
            => res[p].code = 400)
    /\ [][\A i \in DOMAIN accounts' \ DOMAIN accounts : accounts'[i].balance >= 0]_vars

\* C10: a createAccount whose customer_id is absent or zero, or whose
\* account_type is absent or empty, is answered 400 and inserts nothing; with
\* both present it inserts exactly one account and changes no other, unless
\* the store reports an error; the balance of the new account is 0 when the
\* body gives no balance.
C10_CreateValidation ==
    [][\A p \in Procs :
         (pc[p] = "idle" /\ Moves(p) /\ req'[p].op = "createAccount"
          /\ ~DecodeFails(req'[p].body))
         => LET body == req'[p].body
                missing == \/ "customer_id" \notin DOMAIN body
                           \/ "account_type" \notin DOMAIN body
                           \/ body.customer_id = 0
                           \/ body.account_type = ""
                new == DOMAIN accounts' \ DOMAIN accounts IN
            /\ pc'[p] = "done"
            /\ missing => res'[p].code = 400 /\ accounts' = accounts /\ seq' = seq
            /\ ~missing => res'[p].code \in {201, 500}
            /\ res'[p].code = 500 => accounts' = accounts
            /\ res'[p].code = 201 =>
                 /\ Cardinality(new) = 1
                 /\ \A i \in DOMAIN accounts : accounts'[i] = accounts[i]
                 /\ \A i \in new :
                      /\ res'[p].body.id = i
                      /\ accounts'[i].customer_id = body.customer_id
                      /\ accounts'[i].account_type = body.account_type
                      /\ "balance" \notin DOMAIN body => accounts'[i].balance = 0]_vars

\* C10 witness: a createAccount that gives customer_id and account_type and no
\* balance has stored account 2 with balance 0, and one with customer_id 0 has
\* been rejected.
C10_Witness ==
    /\ req[1].op = "createAccount" /\ "balance" \notin DOMAIN req[1].body
    /\ res[1].code = 201 /\ 2 \in DOMAIN accounts /\ accounts[2].balance = 0
    /\ req[2].op = "createAccount" /\ "customer_id" \in DOMAIN req[2].body
    /\ DecodeAccount(req[2].body).customer_id = 0 /\ res[2].code = 400

\* The account that a createAccount answered 201 by handler p has stored.
Created(p) == accounts[res[p].body.id]

\* C11: an account created from a body without currency_code is stored with
\* the default currency code (USD, the DEFAULT of the column), and one
\* created from a body without status is stored with status active.
C11_Defaults ==
    \A p \in Procs :
      (req[p].op = "createAccount" /\ pc[p] = "done" /\ res[p].code = 201)
      => /\ "currency_code" \notin DOMAIN req[p].body
              => Created(p).currency_code = "USD"
         /\ "status" \notin DOMAIN req[p].body
              => Created(p).status = "active"

\* The values of status that the data model allows.
Statuses == {"active", "inactive", "closed"}

\* C12: every row that a createAccount or an updateAccount stores has a status
\* that is active, inactive or closed, whatever the request body (stated for
\* bodies that give a status, so that no default takes part).
C12_StatusValid ==
    [][\A p \in Procs :
         ( /\ pc[p] = "idle" /\ Moves(p)
           /\ req'[p].op \in {"createAccount", "updateAccount"}
           /\ "status" \in DOMAIN req'[p].body )
         => \A i \in DOMAIN accounts' :
              (i \notin DOMAIN accounts \/ accounts'[i] # accounts[i])
              => accounts'[i].status \in Statuses]_vars

\* C13: updateAccount leaves the set of ids and every other account as they
\* are; of the account it addresses it keeps balance, customer_id,
\* currency_code and created_at; the account it returns with 200 is the
\* stored one, balance included; answered otherwise it changes nothing.
C13_UpdateFrame ==
    [][\A p \in Procs :
         (pc[p] = "idle" /\ Moves(p) /\ req'[p].op = "updateAccount")
         => LET i == req'[p].id IN
            /\ pc'[p] = "done"
            /\ DOMAIN accounts' = DOMAIN accounts
            /\ \A j \in DOMAIN accounts \ {i} : accounts'[j] = accounts[j]
            /\ i \in DOMAIN accounts =>
                 /\ accounts'[i].balance = accounts[i].balance
                 /\ accounts'[i].customer_id = accounts[i].customer_id
                 /\ accounts'[i].currency_code = accounts[i].currency_code
                 /\ accounts'[i].created_at = accounts[i].created_at
            /\ res'[p].code = 200 =>
                 /\ i \in DOMAIN accounts
                 /\ res'[p].body = AccountJson(i, accounts'[i])
                 /\ res'[p].body.balance = accounts[i].balance
            /\ res'[p].code # 200 => accounts' = accounts]_vars

\* C13 witness: an updateAccount with a body that gives no balance has changed
\* account_type and status of account 1, whose balance is not zero.
C13_Witness ==
    /\ req[1].op = "updateAccount" /\ req[1].id = 1 /\ res[1].code = 200
    /\ "balance" \notin DOMAIN req[1].body
    /\ accounts[1].account_type = "savings" /\ accounts[1].status = "inactive"
    /\ accounts[1].balance = InitBalance /\ res[1].body.balance = InitBalance
    /\ accounts[1].updated_at > accounts[1].created_at

\* The operations that change the account they address.
Mutating == {"updateAccount", "deposit", "withdraw"}

\* C14: no step of an updateAccount, deposit or withdraw addressed to account
\* A changes any other account or the set of ids; its transaction writes, and
\* so locks, row A only; its UPDATE can go ahead whenever no other open
\* transaction has written row A, whatever is going on at other accounts;
\* and a withdrawal is let through or answered insufficient funds by the
\* balance of A alone (store errors apart).
C14_Independent ==
    /\ [][\A p \in Procs :
            (Moves(p) /\ req'[p].op \in Mutating)
            => /\ DOMAIN accounts' = DOMAIN accounts
               /\ \A j \in DOMAIN accounts \ {req'[p].id} : accounts'[j] = accounts[j]]_vars
    /\ [][\A p \in Procs :
            (pc[p] = "select" /\ Moves(p) /\ res'[p].code \notin {404, 500})
            => LET a == accounts[req[p].id].balance IN
               /\ a < Amount(p) => res'[p] = Insufficient
               /\ a >= Amount(p) => pc'[p] = "update"]_vars
    /\ [](\A p \in Procs :
            /\ Writes(p) \subseteq {req[p].id}
            /\ ( /\ pc[p] = "update"
                 /\ req[p].id \in DOMAIN accounts
                 /\ \A q \in Procs \ {p} : req[p].id \notin Writes(q) )
               => ENABLED (Step(p) /\ pc'[p] = "commit"))

\* C14 witness: a deposit on account 1 has committed while a deposit on
\* account 2 was between its UPDATE and its commit, holding the lock of row
\* 2, and the stored account 2 is as it was at the start.
C14_Witness ==
    /\ req[1].op = "deposit" /\ req[1].id = 2 /\ pc[1] = "commit"
    /\ 2 \in Writes(1)
    /\ req[2].op = "deposit" /\ req[2].id = 1 /\ res[2].code = 200
    /\ accounts[1].balance > InitBalance
    /\ accounts[2].balance = 0 /\ accounts[2].updated_at = 0

\* C15: the id sequence never goes back and every id in the table has been
\* handed out by it; no step removes an id or changes the customer_id or
\* created_at stored under it; the id that a createAccount answered 201
\* returns is new, above every id handed out before it, and holds the
\* account just created; two createAccount answered 201 return different ids.
C15_IdsUnique ==
    /\ [][/\ seq' >= seq
          /\ DOMAIN accounts \subseteq DOMAIN accounts'
          /\ \A i \in DOMAIN accounts :
               /\ accounts'[i].customer_id = accounts[i].customer_id
               /\ accounts'[i].created_at = accounts[i].created_at
          /\ \A i \in DOMAIN accounts' \ DOMAIN accounts : i > seq /\ i = seq'
          /\ \A p \in Procs :
               (pc[p] = "idle" /\ Moves(p) /\ req'[p].op = "createAccount"
                /\ res'[p].code = 201)
               => DOMAIN accounts' \ DOMAIN accounts = {res'[p].body.id}]_vars
    /\ [](/\ DOMAIN accounts \subseteq 1..seq
          /\ \A p, q \in Procs :
               ( /\ p # q
                 /\ req[p].op = "createAccount" /\ res[p].code = 201
                 /\ req[q].op = "createAccount" /\ res[q].code = 201 )
               => res[p].body.id # res[q].body.id)

\* C15 witness: two createAccount have been answered 201, with the ids 2 and
\* 3, and the table holds the accounts 1, 2 and 3.
C15_Witness ==
    /\ req[1].op = "createAccount" /\ res[1].code = 201 /\ res[1].body.id = 2
    /\ req[2].op = "createAccount" /\ res[2].code = 201 /\ res[2].body.id = 3
    /\ DOMAIN accounts = {1, 2, 3}

\* C16: of every stored account, updated_at is not before created_at.
C16_UpdatedNotBeforeCreated ==
    \A i \in DOMAIN accounts : accounts[i].updated_at >= accounts[i].created_at

\* C17: a step of a deposit or withdrawal changes the table only by committing,
\* and then it stores the whole row its UPDATE wrote, balance and updated_at
\* together, and answers 200 with that balance; a deposit or withdrawal that
\* returns without having committed, whether db.Begin(), the SELECT, the
\* UPDATE or tx.Commit() failed, is answered with an error, and none of its
\* steps has changed the table.
C17_AllOrNothing ==
    /\ [][\A p \in Procs :
            (Moves(p) /\ req'[p].op \in {"deposit", "withdraw"})
            => LET i == req'[p].id IN
               /\ accounts' # accounts =>
                    /\ pc[p] = "commit" /\ pc'[p] = "done"
                    /\ tx'[p].state = "committed"
                    /\ res'[p].code = 200
                    /\ accounts'[i] = tx[p].writes[i]
                    /\ res'[p].body.balance = accounts'[i].balance
               /\ (pc'[p] = "done" /\ tx'[p].state # "committed") =>
                    /\ res'[p].code \in {400, 404, 500}
                    /\ accounts' = accounts
               /\ (pc'[p] = "done" /\ res'[p].code # 200) =>
                    /\ tx'[p].state # "committed"
                    /\ accounts' = accounts]_vars
    /\ [](\A p \in Procs :
            (req[p].op \in {"deposit", "withdraw"} /\ pc[p] # "done")
            => tx[p].state # "committed")

\* C17 witness: the commit of a deposit of 0.01 on account 1 has failed after
\* its UPDATE had computed the new balance: the deposit is answered 500 and
\* account 1 has the balance and the updated_at it started with.
C17_Witness ==
    /\ req[1].op = "deposit" /\ req[1].id = 1 /\ Funds(1) /\ Amount(1) = 10
    /\ pc[1] = "done" /\ res[1].code = 500 /\ tx[1].state = "rolledback"
    /\ loc[1].newBalance = InitBalance + 10
    /\ pc[2] = "idle"
    /\ accounts[1].balance = InitBalance /\ accounts[1].updated_at = 0

\* C18: the balance that getBalance or getAccount returns is the committed
\* balance of the account at the moment of the read, also while an open
\* transaction of a deposit or withdrawal holds another, uncommitted balance
\* of that account; a read returns nothing of an account that no commit has
\* stored.
C18_NoDirtyRead ==
    [][\A p \in Procs :
         (pc[p] = "idle" /\ Moves(p) /\ req'[p].op \in {"getBalance", "getAccount"})
         => LET i == req'[p].id IN
            /\ pc'[p] = "done"
            /\ res'[p].code \in {200, 404, 500}
            /\ res'[p].code = 200 =>
                 /\ i \in DOMAIN accounts
                 /\ res'[p].body.balance = accounts[i].balance
            /\ res'[p].code = 404 => i \notin DOMAIN accounts]_vars

\* C18 witness: a getBalance of account 1 has returned the committed balance
\* while the transaction of a deposit held a different, uncommitted balance of
\* account 1.
C18_Witness ==
    /\ req[1].op = "deposit" /\ req[1].id = 1 /\ pc[1] = "commit"
    /\ 1 \in Writes(1) /\ tx[1].writes[1].balance # accounts[1].balance
    /\ req[2].op = "getBalance" /\ req[2].id = 1 /\ res[2].code = 200
    /\ res[2].body.balance = accounts[1].balance

\* C19: a getBalance step changes neither the table, nor the id sequence, nor
\* any transaction, and what it returns with 200 is the id asked for with the
\* committed balance and currency_code of that account; so two getBalance of
\* the same account answered 200, with no committed updateAccount, deposit or
\* withdrawal on that account by any other request, return the same
\* account_id, balance and currency_code.
C19_PureRead ==
    /\ [][\A p \in Procs :
            (pc[p] = "idle" /\ Moves(p) /\ req'[p].op = "getBalance")
            => /\ accounts' = accounts /\ seq' = seq /\ tx' = tx
               /\ res'[p].code = 200 =>
                    res'[p].body = [account_id |-> req'[p].id,
                                    balance |-> accounts[req'[p].id].balance,
                                    currency_code |-> accounts[req'[p].id].currency_code]]_vars
    /\ [](\A p, q \in Procs :
            ( /\ p < q
              /\ req[p].op = "getBalance" /\ req[q].op = "getBalance"
              /\ req[p].id = req[q].id
              /\ res[p].code = 200 /\ res[q].code = 200
              /\ \A r \in Procs \ {p, q} :
                   ~ ( /\ req[r].op \in Mutating /\ req[r].id = req[p].id
                       /\ pc[r] = "done" /\ res[r].code = 200 ) )
            => res[p].body = res[q].body)

\* C19 witness: two getBalance of account 1 have been answered 200 with the
\* same body, and the table is as it was at the start.
C19_Witness ==
    /\ req[1].op = "getBalance" /\ req[1].id = 1 /\ res[1].code = 200
    /\ req[2].op = "getBalance" /\ req[2].id = 1 /\ res[2].code = 200
    /\ res[1].body = res[2].body
    /\ res[1].body.balance = InitBalance /\ res[1].body.currency_code = "USD"
    /\ DOMAIN accounts = {1} /\ accounts[1].updated_at = 0

\* C20: the transaction of a deposit or withdrawal is open exactly while its
\* handler is between db.Begin() and its return; it ends once, committed or
\* rolled back, in the step in which the handler returns on any of its exit
\* paths; an ended transaction stays as it ended, so a committed one is never
\* rolled back; and the handler answers 200 exactly when it has committed.
C20_TxEndsOnce ==
    /\ [](\A p \in Procs :
            /\ tx[p].state = "open" <=> pc[p] \in {"select", "update", "commit"}
            /\ pc[p] = "done" =>
                 /\ tx[p].state \in {"none", "committed", "rolledback"}
                 /\ tx[p].state = "committed" <=>
                      (req[p].op \in {"deposit", "withdraw"} /\ res[p].code = 200))
    /\ [][\A p \in Procs :
            /\ tx[p].state = "none" => tx'[p].state \in {"none", "open"}
            /\ tx[p].state = "open" => tx'[p].state \in {"open", "committed", "rolledback"}
            /\ tx[p].state \in {"committed", "rolledback"} => tx'[p] = tx[p]
            /\ (tx[p].state = "open" /\ pc'[p] = "done") => tx'[p].state # "open"
            /\ tx'[p].state = "committed" => tx[p].state \in {"open", "committed"}]_vars

\* C20 witness: a withdrawal has returned with its transaction committed and
\* a second one, answered insufficient funds, has returned with its
\* transaction rolled back.
C20_Witness ==
    /\ req[1].op = "withdraw" /\ pc[1] = "done" /\ res[1].code = 200
    /\ tx[1].state = "committed"
    /\ req[2].op = "withdraw" /\ pc[2] = "done" /\ res[2] = Insufficient
    /\ tx[2].state = "rolledback"

\* Handler p is between db.Begin() and its return.
Started(p) == pc[p] \in {"select", "update", "commit"}

\* C21: under fair scheduling every deposit or withdrawal that has begun its
\* transaction returns, also when its UPDATE has to wait for the row lock of
\* another transaction on the same account, and with no store error to end
\* the wait.
C21_Returns == \A p \in Procs : Started(p) ~> (pc[p] = "done")

\* C21 witness: the UPDATE of a started withdrawal on account 1 waits for the
\* row lock held by a deposit that has run its UPDATE and not yet committed.
C21_Witness ==
    /\ req[1].op = "deposit" /\ req[1].id = 1 /\ pc[1] = "commit" /\ 1 \in Writes(1)
    /\ req[2].op = "withdraw" /\ req[2].id = 1 /\ pc[2] = "update"
    /\ LockedByOther(2, 1)

\* The text s is the decimal form of a non-negative integer.
NonNegativeInteger(s) == IsBigint(s) /\ ParseBigint(s) >= 0

\* C22: a getAccounts whose limit or offset is given and is not a non-negative
\* integer is answered with a validation error (400), and one that gives
\* neither returns at most 100 accounts from the first on, which is the whole
\* table while it has at most 100 rows (failures of the store apart).
C22_ListValidation ==
    \A p \in Procs :
      (req[p].op = "getAccounts" /\ pc[p] = "done")
      => LET limit == req[p].body.limit
             offset == req[p].body.offset IN
         /\ ( \/ limit # "" /\ ~NonNegativeInteger(limit)
              \/ offset # "" /\ ~NonNegativeInteger(offset) )
            => res[p].code = 400 \/ res[p] = HttpError(500, StoreErr)
         /\ (limit = "" /\ offset = "" /\ res[p].code = 200 /\ Latest(p))
            => res[p].body = {AccountJson(i, accounts[i]) : i \in DOMAIN accounts}

\* What the request of handler p has added to the balance of account i by
\* its own report: the amount of a deposit answered 200, minus the amount of
\* a withdrawal answered 200, nothing otherwise.
Delta(p, i) ==
    IF Funds(p) /\ req[p].id = i /\ pc[p] = "done" /\ res[p].code = 200
    THEN IF req[p].op = "deposit" THEN Amount(p) ELSE -Amount(p)
    ELSE 0

RECURSIVE SumDelta(_, _)
SumDelta(S, i) ==
    IF S = {} THEN 0
    ELSE LET p == CHOOSE q \in S : TRUE IN Delta(p, i) + SumDelta(S \ {p}, i)

\* C23: once every deposit and withdrawal has returned, the balance of
\* account 1 is its initial balance plus the amounts of the deposits answered
\* 200 minus the amounts of the withdrawals answered 200.
C23_NoLostUpdate ==
    Quiet => accounts[1].balance = InitBalance + SumDelta(Procs, 1)

\* C24: no two stored users share a username or an email, and a registerUser
\* that returns when its username or its email is taken, by whatever
\* registration took it, is answered 409 and stores no user (bodies rejected
\* by the validation and failures of the store apart).
C24_RegisterConflict ==
    /\ [](\A i, j \in DOMAIN users :
            i # j => /\ users[i].username # users[j].username
                     /\ users[i].email # users[j].email)
    /\ [][\A p \in Procs :
            LET u == DecodeUser(req'[p].body) IN
            ( /\ Moves(p) /\ pc'[p] = "done" /\ req'[p].op = "registerUser"
              /\ ~DecodeFails(req'[p].body) /\ ~MissingCredentials(u)
              /\ Exists(u.username, u.email) )
            => /\ users' = users
               /\ res'[p].code = 409 \/ res'[p] = HttpError(500, StoreErr)]_vars

\* Handler p has answered a loginUser with a token.
Token(p) == req[p].op = "loginUser" /\ pc[p] = "done" /\ res[p].code = 200

\* C25: loginUser goes on to its checks only with the stored row of the user
\* whose username the request gives, keeps that row as read, and answers with
\* a token only if the status of that row is active and its password is the
\* hash of the password given; and once an updateUser has stored a status
\* other than active for a user, a loginUser for that user that arrives
\* afterwards, with no updateUser of that user in between, gets no token.
C25_LoginGuard ==
    /\ [][\A p \in Procs :
            LET u == DecodeUser(req'[p].body) IN
            (Moves(p) /\ req'[p].op = "loginUser")
            => /\ pc'[p] = "verify" =>
                    \E i \in DOMAIN users :
                      /\ users[i].username = u.username
                      /\ loc'[p].id = i
                      /\ loc'[p].status = users[i].status
                      /\ loc'[p].password = users[i].password
               /\ pc[p] = "verify" => loc'[p] = loc[p]
               /\ res'[p].code = 200 =>
                    /\ pc[p] = "verify"
                    /\ loc[p].status = "active"
                    /\ loc[p].password = Hash(u.password)
                    /\ res'[p].body.user_id = loc[p].id
                    /\ res'[p].body.username = u.username]_vars
    /\ [](\A p, q \in Procs :
            ( /\ p < q
              /\ req[p].op = "updateUser" /\ res[p].code = 200
              /\ res[p].body.status # "active"
              /\ req[q].op = "loginUser" /\ pc[q] = "done"
              /\ ~DecodeFails(req[q].body)
              /\ DecodeUser(req[q].body).username = res[p].body.username
              /\ \A r \in Procs :
                   (p < r /\ r < q) => ~(req[r].op = "updateUser" /\ req[r].id = req[p].id) )
            => ~Token(q))

\* C25 witness: an updateUser has set the status of alice to inactive, and a
\* loginUser of alice with her password, arrived after it, is answered 403.
C25_Witness ==
    /\ req[1].op = "updateUser" /\ req[1].id = 1 /\ res[1].code = 200
    /\ users[1].username = "alice" /\ users[1].status = "inactive"
    /\ req[2].op = "loginUser" /\ pc[2] = "done"
    /\ DecodeUser(req[2].body).username = "alice"
    /\ PasswordMatches(users[1].password, DecodeUser(req[2].body).password)
    /\ res[2] = HttpError(403, "Account is not active")

====
